---- MODULE Spec2Model ----
(***************************************************************************)
(* Model of the Matlab/Octave/Scilab/Gnuplot/Julia lexer of Notepad2:      *)
(* ColouriseMatlabDoc and FoldMatlabDoc (scintilla/lexers/LexMatlab.cxx)   *)
(* with the helpers of scintilla/lexlib/LexAccessor.cxx they call.         *)
(*                                                                         *)
(* A character is a one-character string; NUL stands for '\0', BackTick   *)
(* for the grave accent.  Positions                                        *)
(* and lines are 0-based as in the source; doc[p + 1] is the byte at p.    *)
(***************************************************************************)
EXTENDS Integers, Sequences, FiniteSets, TLC

VARIABLES
    doc,        \* the buffer, a sequence of characters
    lexType,    \* property "lexer.lang.type"
    lists,      \* keywordLists: [keywords, attributes, commands, function1, function2]
    props,      \* properties [foldComment, foldCompact]: "fold.comment", "fold.compact"
    phase,      \* what the host is doing: "lex", "lexed", "relex", "relexed", "edit",
                \* "edited", "fold", "folded", "refold", "refolded"
    lx,         \* the frame of ColouriseMatlabDoc: StyleContext, styler and locals
    fd,         \* the frame of FoldMatlabDoc
    levels,     \* the host's fold level per line
    full        \* outcome of the first scan and the first fold pass, kept when the host
                \* scans or folds again

vars == <<doc, lexType, lists, props, phase, lx, fd, levels, full>>

----------------------------------------------------------------------------
\* Dialects

LEX_MATLAB == 40
LEX_OCTAVE == 61
LEX_SCILAB == 62
LEX_GNUPLOT == 65
LEX_JULIA == 66

Dialects == {LEX_MATLAB, LEX_OCTAVE, LEX_SCILAB, LEX_GNUPLOT, LEX_JULIA}

IsMatlabOctave(lt) == lt = LEX_MATLAB \/ lt = LEX_OCTAVE

----------------------------------------------------------------------------
\* Character classes (CharacterSet.h)

NUL == "NUL"

\* the grave accent, which a TLA+ string literal cannot hold
BackTick == "BQ"

Digits == {"0", "1", "2", "3", "4", "5", "6", "7", "8", "9"}

LowerCase ==
    {"a", "b", "c", "d", "e", "f", "g", "h", "i", "j", "k", "l", "m",
     "n", "o", "p", "q", "r", "s", "t", "u", "v", "w", "x", "y", "z"}

UpperCase ==
    {"A", "B", "C", "D", "E", "F", "G", "H", "I", "J", "K", "L", "M",
     "N", "O", "P", "Q", "R", "S", "T", "U", "V", "W", "X", "Y", "Z"}

IsADigit(ch) == ch \in Digits

IsHexDigit(ch) ==
    ch \in Digits \cup {"a", "b", "c", "d", "e", "f", "A", "B", "C", "D", "E", "F"}

IsAlphaNumeric(ch) == ch \in Digits \cup LowerCase \cup UpperCase

iswordstart(ch) == IsAlphaNumeric(ch) \/ ch = "_"

\* ' ' and 0x09..0x0d (the vertical tab has no TLA+ literal and is in no document here)
isspacechar(ch) == ch \in {" ", "\t", "\n", "\r", "\f"}

IsSpaceOrTab(ch) == ch = " " \/ ch = "\t"

isoperator(ch) ==
    ch \in {"%", "^", "&", "*", "(", ")", "-", "+", "=", "|", "{", "}", "[", "]",
            ":", ";", "<", ">", ",", "/", "?", "!", ".", "~"}

IsMatOperator(ch) == isoperator(ch) \/ ch = "@" \/ ch = "\\" \/ ch = "$"

IsMatNumber(ch, chPrev) ==
    \/ IsADigit(ch)
    \/ (ch = "." /\ chPrev # ".")
    \/ ((ch = "+" \/ ch = "-") /\ (chPrev = "e" \/ chPrev = "E"))
    \/ (IsADigit(chPrev) /\ ch \in {"e", "E", "i", "j", "I", "J"})

IsInvalidFileName(ch) ==
    isspacechar(ch) \/ ch \in {"<", ">", "/", "\\", "'", "\"", "|", "*", "?"}

----------------------------------------------------------------------------
\* The document as the accessor sees it (LexAccessor.h, Document)

Length == Len(doc)

SafeGetCharAt(pos, chDefault) ==
    IF pos >= 0 /\ pos < Length THEN doc[pos + 1] ELSE chDefault

\* a line ends at LF, and at a CR that no LF follows
IsLineEndAt(p) ==
    \/ doc[p + 1] = "\n"
    \/ (doc[p + 1] = "\r" /\ SafeGetCharAt(p + 1, NUL) # "\n")

GetLine(pos) ==
    Cardinality({p \in 0..(Length - 1) : p < pos /\ IsLineEndAt(p)})

LineStart(line) ==
    IF line <= 0 THEN 0
    ELSE LET starts == {p \in 1..Length : GetLine(p) >= line}
         IN  IF starts = {} THEN Length
             ELSE CHOOSE p \in starts : \A q \in starts : p <= q

\* styler.Match(pos, s)
MatchAt(pos, s) == \A k \in 1..Len(s) : SafeGetCharAt(pos + k - 1, " ") = s[k]

IsLexSpaceToEOL(startPos) ==
    LET line == GetLine(startPos)
        endPos == LineStart(line + 1) - 1
    IN  \A i \in startPos..(endPos - 1) : IsSpaceOrTab(SafeGetCharAt(i, " "))

\* LexGetNextChar: the first non-blank character at or after startPos
LexGetNextChar(startPos) ==
    LET found == {i \in startPos..(Length - 1) : ~isspacechar(SafeGetCharAt(i, " "))}
    IN  IF found = {} THEN NUL
        ELSE SafeGetCharAt(CHOOSE i \in found : \A j \in found : i <= j, " ")

----------------------------------------------------------------------------
\* StyleContext and the styling half of LexAccessor, acting on the frame s

AtLineEndAt(pos, line) ==
    IF line < GetLine(Length)
    THEN pos >= LineStart(line + 1) - 1
    ELSE pos >= LineStart(line + 1)

More(s) == s.currentPos < s.endPos

Forward(s) ==
    IF s.currentPos < s.endPos
    THEN LET line == IF s.atLineEnd THEN s.currentLine + 1 ELSE s.currentLine
             pos == s.currentPos + 1
         IN  [s EXCEPT !.atLineStart = s.atLineEnd,
                       !.currentLine = line,
                       !.chPrev = s.ch,
                       !.currentPos = pos,
                       !.ch = s.chNext,
                       !.chNext = SafeGetCharAt(pos + 1, NUL),
                       !.atLineEnd = AtLineEndAt(pos, line)]
    ELSE [s EXCEPT !.atLineStart = FALSE,
                   !.chPrev = " ",
                   !.ch = " ",
                   !.chNext = " ",
                   !.atLineEnd = TRUE]

Forward2(s) == Forward(Forward(s))

Forward3(s) == Forward(Forward(Forward(s)))

\* LexAccessor::ColourTo: styles startSeg..pos; an empty range styles nothing
ColourTo(s, pos, chAttr) ==
    IF pos >= s.startSeg
    THEN [s EXCEPT !.styles = [p \in DOMAIN s.styles |->
                                  IF p >= s.startSeg /\ p <= pos THEN chAttr ELSE s.styles[p]],
                   !.written = [p \in DOMAIN s.written |->
                                  IF p >= s.startSeg /\ p <= pos
                                  THEN s.written[p] + 1 ELSE s.written[p]],
                   !.startSeg = pos + 1]
    ELSE s

SegmentEnd(s) == s.currentPos - (IF s.currentPos > Length THEN 2 ELSE 1)

ChangeState(s, state) == [s EXCEPT !.state = state]

SetState(s, state) == [ColourTo(s, SegmentEnd(s), s.state) EXCEPT !.state = state]

ForwardSetState(s, state) == SetState(Forward(s), state)

Complete(s) == ColourTo(s, SegmentEnd(s), s.state)

\* sc.Match(const char *)
Match(s, str) ==
    /\ s.ch = str[1]
    /\ (Len(str) >= 2 => s.chNext = str[2])
    /\ \A k \in 3..Len(str) : SafeGetCharAt(s.currentPos + k - 1, NUL) = str[k]

GetRelative(s, n) == SafeGetCharAt(s.currentPos + n, NUL)

\* sc.GetCurrent: the text of the segment being lexed
GetCurrent(s) ==
    [k \in 1..(s.currentPos - s.startSeg) |-> SafeGetCharAt(s.startSeg + k - 1, " ")]

GetNextNSChar(s) ==
    IF ~isspacechar(s.ch) THEN s.ch
    ELSE IF ~isspacechar(s.chNext) THEN s.chNext
    ELSE LexGetNextChar(s.currentPos + 2)

InList(list, word) == word \in list

InListPrefixed(list, word, marker) == Append(word, marker) \in list

----------------------------------------------------------------------------
\* Comment boundaries (LexMatlab.cxx)

IsLineCommentStart(lt, s, visibleChars) ==
    \/ s.ch = "#"
    \/ (IsMatlabOctave(lt)
        /\ (s.ch = "%"
            \/ (visibleChars = 0 /\ s.ch = "." /\ s.chNext = "." /\ GetRelative(s, 2) = ".")))
    \/ (lt # LEX_JULIA /\ s.ch = "/" /\ s.chNext = "/")

IsNestedCommentStart(lt, ch, chNext, visibleChars, currentPos) ==
    /\ visibleChars = 0
    /\ chNext = "{"
    /\ ((lt = LEX_MATLAB /\ ch = "%") \/ (lt = LEX_OCTAVE /\ (ch = "%" \/ ch = "#")))
    /\ IsLexSpaceToEOL(currentPos + 2)

IsNestedCommentEnd(lt, ch, chNext, visibleChars, currentPos) ==
    /\ visibleChars = 0
    /\ chNext = "}"
    /\ ((lt = LEX_MATLAB /\ ch = "%") \/ (lt = LEX_OCTAVE /\ (ch = "%" \/ ch = "#")))
    /\ IsLexSpaceToEOL(currentPos + 2)

IsBlockCommentStart(lt, ch, chNext, visibleChars, currentPos) ==
    \/ IsNestedCommentStart(lt, ch, chNext, visibleChars, currentPos)
    \/ (lt = LEX_JULIA /\ ch = "#" /\ chNext = "=")
    \/ (ch = "/" /\ chNext = "*")

\* "=#" does not end a block comment
IsBlockCommentEnd_NoJulia(lt, ch, chNext, visibleChars, currentPos) ==
    \/ IsNestedCommentEnd(lt, ch, chNext, visibleChars, currentPos)
    \/ (ch = "*" /\ chNext = "/")

IsBlockCommentEnd(lt, ch, chNext, visibleChars, currentPos) ==
    \/ IsNestedCommentEnd(lt, ch, chNext, visibleChars, currentPos)
    \/ (lt = LEX_JULIA /\ ch = "=" /\ chNext = "#")
    \/ (ch = "*" /\ chNext = "/")

----------------------------------------------------------------------------
\* ColouriseMatlabDoc: the cases of switch (sc.state), one operator each

CaseOperator(s) ==
    LET s1 == SetState(s, "DEFAULT")
    IN  IF s1.chPrev = "."
        THEN IF s1.ch \in {"*", "/", "\\", "^"}
             THEN [s1 EXCEPT !.isTransposeOperator = FALSE]
             ELSE IF s1.ch = "'"
             THEN [s1 EXCEPT !.isTransposeOperator = TRUE]
             ELSE s1
        ELSE s1

CaseNumber(s) ==
    IF ~IsMatNumber(s.ch, s.chPrev)
    THEN LET s1 == IF lexType = LEX_JULIA /\ s.ch = "m" /\ s.chPrev = "i"
                   THEN Forward(s) ELSE s
         IN  [SetState(s1, "DEFAULT") EXCEPT !.isTransposeOperator = TRUE]
    ELSE s

CaseHexNum(s) ==
    IF ~IsHexDigit(s.ch)
    THEN [SetState(s, "DEFAULT") EXCEPT !.isTransposeOperator = TRUE]
    ELSE s

\* the attribute list is looked at before the keyword list
ClassifyIdentifier_AttributeFirst(s) ==
    LET word == GetCurrent(s)
        chNext == GetNextNSChar(s)
    IN  IF InList(lists.attributes, word) THEN "ATTRIBUTE"
        ELSE IF InList(lists.keywords, word) THEN "KEYWORD"
        ELSE IF InList(lists.commands, word) THEN "INTERNALCOMMAND"
        ELSE IF InListPrefixed(lists.function1, word, "(") THEN "FUNCTION1"
        ELSE IF InListPrefixed(lists.function2, word, "(") THEN "FUNCTION2"
        ELSE IF chNext = "(" THEN "FUNCTION"
        ELSE IF lexType = LEX_JULIA /\ s.state = "IDENTIFIER" /\ chNext = "{" THEN "ATTRIBUTE"
        ELSE s.state

\* the tag an identifier ends with
ClassifyIdentifier(s) ==
    LET word == GetCurrent(s)
        chNext == GetNextNSChar(s)
    IN  IF InList(lists.keywords, word) THEN "KEYWORD"
        ELSE IF InList(lists.attributes, word) THEN "ATTRIBUTE"
        ELSE IF InList(lists.commands, word) THEN "INTERNALCOMMAND"
        ELSE IF InListPrefixed(lists.function1, word, "(") THEN "FUNCTION1"
        ELSE IF InListPrefixed(lists.function2, word, "(") THEN "FUNCTION2"
        ELSE IF chNext = "(" THEN "FUNCTION"
        ELSE IF lexType = LEX_JULIA /\ s.state = "IDENTIFIER" /\ chNext = "{" THEN "ATTRIBUTE"
        ELSE s.state

CaseIdentifier(s) ==
    IF ~iswordstart(s.ch)
    THEN LET tag == ClassifyIdentifier(s)
             s1 == [ChangeState(s, tag) EXCEPT !.isTransposeOperator = (tag # "KEYWORD")]
             s2 == IF s1.ch = "@" THEN Forward(SetState(s1, "OPERATOR")) ELSE s1
         IN  SetState(s2, "DEFAULT")
    ELSE s

CaseCallback(s) ==
    IF ~iswordstart(s.ch)
    THEN LET s1 == IF s.ch = "@" THEN Forward(SetState(s, "OPERATOR")) ELSE s
         IN  SetState(s1, "DEFAULT")
    ELSE s

CaseCommand(s) ==
    IF IsInvalidFileName(s.ch)
    THEN [SetState(s, "DEFAULT") EXCEPT !.isTransposeOperator = FALSE]
    ELSE s

\* a line end ends a string
CaseString_EndsAtLineEnd(s) ==
    IF s.atLineEnd
    THEN SetState(s, "DEFAULT")
    ELSE IF lexType = LEX_JULIA /\ s.ch = "\\"
    THEN IF s.chNext \in {"\"", "'", "\\"} THEN Forward(s) ELSE s
    ELSE IF s.ch = "'"
    THEN IF s.chNext = "'" THEN Forward(s) ELSE ForwardSetState(s, "DEFAULT")
    ELSE s

CaseString(s) ==
    IF lexType = LEX_JULIA /\ s.ch = "\\"
    THEN IF s.chNext \in {"\"", "'", "\\"} THEN Forward(s) ELSE s
    ELSE IF s.ch = "'"
    THEN IF s.chNext = "'" THEN Forward(s) ELSE ForwardSetState(s, "DEFAULT")
    ELSE s

\* SCE_MAT_DOUBLEQUOTESTRING, SCE_MAT_REGEX, SCE_MAT_RAW_STRING2; at the closing
\* quote of a regex the scan stops before the loop over the trailing flags
CaseDoubleQuoteString(s) ==
    IF s.ch = "\\"
    THEN IF s.chNext \in {"\"", "'", "\\"} THEN Forward(s) ELSE s
    ELSE IF s.ch = "\""
    THEN IF s.state = "REGEX"
         THEN [s EXCEPT !.pc = "regexFlags"]
         ELSE ForwardSetState(s, "DEFAULT")
    ELSE s

TripleQuote == <<"\"", "\"", "\"">>

CaseTripleString(s) ==
    IF Match(s, TripleQuote)
    THEN ForwardSetState(Forward2(s), "DEFAULT")
    ELSE s

CaseBacktick(s) ==
    IF s.ch = BackTick THEN ForwardSetState(s, "DEFAULT") ELSE s

\* the depth is decremented without the clamp at 0
CaseCommentBlock_NoClamp(s) ==
    IF IsBlockCommentEnd(lexType, s.ch, s.chNext, s.visibleChars, s.currentPos)
    THEN LET level == IF IsMatlabOctave(lexType) THEN s.commentLevel - 1 ELSE s.commentLevel
             s1 == [s EXCEPT !.commentLevel = level]
         IN  IF level = 0 THEN ForwardSetState(Forward(s1), "DEFAULT") ELSE s1
    ELSE IF IsNestedCommentStart(lexType, s.ch, s.chNext, s.visibleChars, s.currentPos)
    THEN Forward([s EXCEPT !.commentLevel = s.commentLevel + 1])
    ELSE s

\* a closer ends the comment at any depth
CaseCommentBlock_EndsAtAnyDepth(s) ==
    IF IsBlockCommentEnd(lexType, s.ch, s.chNext, s.visibleChars, s.currentPos)
    THEN LET level == IF IsMatlabOctave(lexType)
                      THEN (IF s.commentLevel - 1 < 0 THEN 0 ELSE s.commentLevel - 1)
                      ELSE s.commentLevel
             s1 == [s EXCEPT !.commentLevel = level]
         IN  ForwardSetState(Forward(s1), "DEFAULT")
    ELSE IF IsNestedCommentStart(lexType, s.ch, s.chNext, s.visibleChars, s.currentPos)
    THEN Forward([s EXCEPT !.commentLevel = s.commentLevel + 1])
    ELSE s

CaseCommentBlock(s) ==
    IF IsBlockCommentEnd(lexType, s.ch, s.chNext, s.visibleChars, s.currentPos)
    THEN LET level == IF IsMatlabOctave(lexType)
                      THEN (IF s.commentLevel - 1 < 0 THEN 0 ELSE s.commentLevel - 1)
                      ELSE s.commentLevel
             s1 == [s EXCEPT !.commentLevel = level]
         IN  IF level = 0 THEN ForwardSetState(Forward(s1), "DEFAULT") ELSE s1
    ELSE IF IsNestedCommentStart(lexType, s.ch, s.chNext, s.visibleChars, s.currentPos)
    THEN Forward([s EXCEPT !.commentLevel = s.commentLevel + 1])
    ELSE s

CaseComment(s) ==
    IF s.atLineStart
    THEN [SetState([s EXCEPT !.visibleChars = 0], "DEFAULT") EXCEPT !.isTransposeOperator = FALSE]
    ELSE s

SwitchState(s) ==
    CASE s.state = "OPERATOR" -> CaseOperator(s)
      [] s.state = "NUMBER" -> CaseNumber(s)
      [] s.state = "HEXNUM" -> CaseHexNum(s)
      [] s.state \in {"IDENTIFIER", "ATTRIBUTE"} -> CaseIdentifier(s)
      [] s.state \in {"CALLBACK", "VARIABLE"} -> CaseCallback(s)
      [] s.state = "COMMAND" -> CaseCommand(s)
      [] s.state = "STRING" -> CaseString(s)
      [] s.state \in {"DOUBLEQUOTESTRING", "REGEX", "RAW_STRING2"} -> CaseDoubleQuoteString(s)
      [] s.state = "TRIPLE_STRING2" -> CaseTripleString(s)
      [] s.state = "BACKTICK" -> CaseBacktick(s)
      [] s.state = "COMMENTBLOCK" -> CaseCommentBlock(s)
      [] s.state = "COMMENT" -> CaseComment(s)
      [] OTHER -> s

----------------------------------------------------------------------------
\* ColouriseMatlabDoc: if (sc.state == SCE_MAT_DEFAULT) { ... }

OctaveTestWords ==
    {<<"t", "e", "s", "t">>, <<"d", "e", "m", "o">>, <<"a", "s", "s", "e", "r", "t">>,
     <<"e", "r", "r", "o", "r">>, <<"w", "a", "r", "n", "i", "n", "g">>,
     <<"f", "a", "i", "l">>, <<"s", "h", "a", "r", "e", "d">>,
     <<"f", "u", "n", "c", "t", "i", "o", "n">>}

\* hasTest is the answer for the line at hand and not kept from earlier lines
StartLineComment_NotSticky(s) ==
    LET s1 == SetState(s, "COMMENT")
    IN  IF lexType = LEX_OCTAVE /\ s1.atLineStart /\ s1.ch = "%" /\ s1.chNext = "!"
        THEN LET pos == s1.currentPos + 2
                 test == \E w \in OctaveTestWords : MatchAt(pos, w)
                 s2 == [s1 EXCEPT !.hasTest = test]
             IN  IF test
                 THEN LET s3 == Forward2(s2)
                      IN  IF iswordstart(s3.ch)
                          THEN SetState(s3, "IDENTIFIER")
                          ELSE SetState(s3, "DEFAULT")
                 ELSE s2
        ELSE IF s1.ch = "." THEN Forward2(s1)
        ELSE s1

\* a line comment starts at sc.ch
StartLineComment(s) ==
    LET s1 == SetState(s, "COMMENT")
    IN  IF lexType = LEX_OCTAVE /\ s1.atLineStart /\ s1.ch = "%" /\ s1.chNext = "!"
        THEN LET pos == s1.currentPos + 2
                 test == s1.hasTest \/ (\E w \in OctaveTestWords : MatchAt(pos, w))
                 s2 == [s1 EXCEPT !.hasTest = test]
             IN  IF test
                 THEN LET s3 == Forward2(s2)
                      IN  IF iswordstart(s3.ch)
                          THEN SetState(s3, "IDENTIFIER")
                          ELSE SetState(s3, "DEFAULT")
                 ELSE s2
        ELSE IF s1.ch = "." THEN Forward2(s1)
        ELSE s1

\* an operator character is at sc.ch; before the loop that skips the blanks after
\* a Julia "::" or "<:" the scan stops at "juliaSkip"
StartOperator(s) ==
    LET s1 == [SetState(s, "OPERATOR") EXCEPT
                   !.isTransposeOperator = (s.ch \in {")", "]", "}"})]
    IN  IF lexType = LEX_JULIA /\ (s1.ch = ":" \/ s1.ch = "<") /\ s1.chNext = ":"
        THEN [SetState(Forward2(s1), "DEFAULT") EXCEPT !.pc = "juliaSkip"]
        ELSE s1

RawQuote == <<"r", "a", "w", "\"">>

DefaultState(s) ==
    IF s.state # "DEFAULT" THEN s
    ELSE IF lexType = LEX_JULIA /\ s.ch = "r" /\ s.chNext = "\""
    THEN Forward(SetState(s, "REGEX"))
    ELSE IF lexType = LEX_JULIA /\ s.ch \in {"b", "L", "I", "E", "v"} /\ s.chNext = "\""
    THEN Forward(SetState(s, "DOUBLEQUOTESTRING"))
    ELSE IF Match(s, RawQuote)
    THEN LET s1 == Forward3(SetState(s, "RAW_STRING2"))
         IN  IF Match(s1, TripleQuote)
             THEN Forward2(ChangeState(s1, "TRIPLE_STRING2"))
             ELSE s1
    ELSE IF IsBlockCommentStart(lexType, s.ch, s.chNext, s.visibleChars, s.currentPos)
    THEN LET level == IF IsMatlabOctave(lexType) THEN s.commentLevel + 1 ELSE s.commentLevel
         IN  Forward(SetState([s EXCEPT !.commentLevel = level], "COMMENTBLOCK"))
    ELSE IF IsLineCommentStart(lexType, s, s.visibleChars)
    THEN StartLineComment(s)
    ELSE IF IsMatlabOctave(lexType) /\ s.visibleChars = 0 /\ s.ch = "!"
    THEN SetState(s, "COMMAND")
    ELSE IF Match(s, TripleQuote)
    THEN Forward2(SetState(s, "TRIPLE_STRING2"))
    ELSE IF s.ch = "'"
    THEN IF s.isTransposeOperator THEN SetState(s, "OPERATOR") ELSE SetState(s, "STRING")
    ELSE IF s.ch = "\""
    THEN SetState(s, "DOUBLEQUOTESTRING")
    ELSE IF s.ch = BackTick
    THEN SetState(s, "BACKTICK")
    ELSE IF s.ch = "0" /\ (s.chNext = "x" \/ s.chNext = "X")
    THEN Forward(SetState(s, "HEXNUM"))
    ELSE IF IsADigit(s.ch) \/ (s.ch = "." /\ IsADigit(s.chNext))
    THEN SetState(s, "NUMBER")
    ELSE IF s.ch = "@" /\ iswordstart(s.chNext)
    THEN Forward(SetState(s, "CALLBACK"))
    ELSE IF s.ch = "$" /\ iswordstart(s.chNext)
    THEN Forward(SetState(s, "VARIABLE"))
    ELSE IF iswordstart(s.ch)
    THEN SetState(s, "IDENTIFIER")
    ELSE IF IsMatOperator(s.ch)
    THEN StartOperator(s)
    ELSE [s EXCEPT !.isTransposeOperator = FALSE]

----------------------------------------------------------------------------
\* ColouriseMatlabDoc: the end of the loop body and the loop's sc.Forward()

\* _UpdateLineState(); lineWrites logs each call with the cursor it was made at
UpdateLineState(s) ==
    [s EXCEPT !.lineStates = [l \in DOMAIN s.lineStates |->
                                 IF l = s.lineCurrent THEN s.commentLevel ELSE s.lineStates[l]],
              !.lineWrites = Append(s.lineWrites,
                                 [line |-> s.lineCurrent, value |-> s.commentLevel,
                                  pos |-> s.currentPos])]

LineEnd(s) ==
    LET s1 == IF s.atLineEnd
              THEN [UpdateLineState(s) EXCEPT !.lineCurrent = s.lineCurrent + 1,
                                              !.visibleChars = 0]
              ELSE s
    IN  IF ~isspacechar(s1.ch)
        THEN [s1 EXCEPT !.visibleChars = s1.visibleChars + 1]
        ELSE s1

\* the line end bookkeeping, sc.Forward() and the test of sc.More()
EndOfIteration(s) ==
    LET s1 == Forward(LineEnd(s))
    IN  [s1 EXCEPT !.pc = IF More(s1) THEN "loop" ELSE "complete"]

\* the loop body from the test of the default state on
FromDefaultState(s) ==
    LET s1 == DefaultState(s)
    IN  IF s1.pc = "juliaSkip" THEN s1 ELSE EndOfIteration(s1)

\* one iteration of for (; sc.More(); sc.Forward()), up to an inner loop if it meets one
Iteration(s) ==
    LET s1 == SwitchState(s)
    IN  IF s1.pc = "regexFlags" THEN s1 ELSE FromDefaultState(s1)

\* while (sc.chNext is one of i m s x) sc.Forward(); then sc.ForwardSetState
RegexFlags(s) ==
    IF s.chNext \in {"i", "m", "s", "x"}
    THEN Forward(s)
    ELSE FromDefaultState([ForwardSetState(s, "DEFAULT") EXCEPT !.pc = "loop"])

\* while (IsSpaceOrTab(sc.ch)) sc.Forward(); then sc.SetState(SCE_MAT_ATTRIBUTE)
JuliaSkip(s) ==
    IF IsSpaceOrTab(s.ch)
    THEN Forward(s)
    ELSE EndOfIteration([SetState(s, "ATTRIBUTE") EXCEPT !.pc = "loop"])

\* the frame when the loop is first reached
StartScan(startPos, length, initStyle, styles, lineStates) ==
    LET lineCurrent == GetLine(startPos)
        end == startPos + length
        endPos == IF end = Length THEN end + 1 ELSE end
    IN  [startPos |-> startPos,
         endPos |-> endPos,
         currentPos |-> startPos,
         currentLine |-> lineCurrent,
         atLineStart |-> (LineStart(lineCurrent) = startPos),
         atLineEnd |-> AtLineEndAt(startPos, lineCurrent),
         initStyle |-> initStyle,
         state |-> initStyle,
         chPrev |-> NUL,
         ch |-> SafeGetCharAt(startPos, NUL),
         chNext |-> SafeGetCharAt(startPos + 1, NUL),
         startSeg |-> startPos,
         length |-> length,
         styles |-> styles,
         written |-> [p \in DOMAIN styles |-> 0],
         lineStates |-> lineStates,
         lineWrites |-> <<>>,
         lineCurrent |-> lineCurrent,
         commentLevel |-> IF lineCurrent > 0 THEN lineStates[lineCurrent - 1] ELSE 0,
         visibleChars |-> 0,
         isTransposeOperator |-> FALSE,
         hasTest |-> FALSE,
         pc |-> IF startPos < endPos THEN "loop" ELSE "complete"]

----------------------------------------------------------------------------
\* FoldMatlabDoc

SC_FOLDLEVELBASE == 1024
SC_FOLDLEVELWHITEFLAG == 4096
SC_FOLDLEVELHEADERFLAG == 8192
LevelShift == 65536

\* char word[32]
MaxWord == 32

\* styler.StyleAt(pos) of the styles the scan left
StyleAt(pos) == IF pos \in DOMAIN lx.styles THEN lx.styles[pos] ELSE "DEFAULT"

\* styler.LevelAt(line)
LevelAt(line) == IF line \in DOMAIN levels THEN levels[line] ELSE SC_FOLDLEVELBASE

IsStreamCommentStyle(style) == style = "COMMENTBLOCK"

IsSripleStringStyle(style) == style = "TRIPLE_STRING2"

IsMatEndChar(chEnd, style) ==
    chEnd \in {"\r", "\n", ";"} \/ style = "COMMENT" \/ style = "COMMENTBLOCK"

\* IsLexCommentLine(line, styler, SCE_MAT_COMMENT)
IsCommentLine(line) ==
    LET startPos == LineStart(line)
        endPos == LineStart(line + 1) - 1
        found == {p \in startPos..(endPos - 1) : ~IsSpaceOrTab(SafeGetCharAt(p, " "))}
    IN  /\ found # {}
        /\ StyleAt(CHOOSE p \in found : \A q \in found : p <= q) = "COMMENT"

\* LexGetRange(startPos, styler, iswordstart, word, 32): the word at startPos
RECURSIVE WordLength(_, _)
WordLength(startPos, i) ==
    IF i < MaxWord - 1 /\ iswordstart(SafeGetCharAt(startPos + i, " "))
    THEN WordLength(startPos, i + 1)
    ELSE i

LexGetRange(startPos) ==
    [k \in 1..WordLength(startPos, 0) |-> SafeGetCharAt(startPos + k - 1, " ")]

RECURSIVE LexSkipSpaceTab(_, _)
LexSkipSpaceTab(startPos, endPos) ==
    IF startPos < endPos /\ IsSpaceOrTab(SafeGetCharAt(startPos, " "))
    THEN LexSkipSpaceTab(startPos + 1, endPos)
    ELSE IF startPos < endPos THEN startPos ELSE endPos

W_function == <<"f", "u", "n", "c", "t", "i", "o", "n">>
W_if == <<"i", "f">>
W_for == <<"f", "o", "r">>
W_while == <<"w", "h", "i", "l", "e">>
W_try == <<"t", "r", "y">>
W_switch == <<"s", "w", "i", "t", "c", "h">>
W_classdef == <<"c", "l", "a", "s", "s", "d", "e", "f">>
W_parfor == <<"p", "a", "r", "f", "o", "r">>
W_do == <<"d", "o">>
W_unwind_protect == <<"u", "n", "w", "i", "n", "d", "_", "p", "r", "o", "t", "e", "c", "t">>
W_select == <<"s", "e", "l", "e", "c", "t">>
W_type == <<"t", "y", "p", "e">>
W_quote == <<"q", "u", "o", "t", "e">>
W_let == <<"l", "e", "t">>
W_macro == <<"m", "a", "c", "r", "o">>
W_struct == <<"s", "t", "r", "u", "c", "t">>
W_begin == <<"b", "e", "g", "i", "n">>
W_module == <<"m", "o", "d", "u", "l", "e">>
W_until == <<"u", "n", "t", "i", "l">>
W_end == <<"e", "n", "d">>
W_methods == <<"m", "e", "t", "h", "o", "d", "s">>
W_properties == <<"p", "r", "o", "p", "e", "r", "t", "i", "e", "s">>
W_events == <<"e", "v", "e", "n", "t", "s">>
W_enumeration == <<"e", "n", "u", "m", "e", "r", "a", "t", "i", "o", "n">>

\* "function" opens a block whatever follows it
IsBlockOpener_NoParenTest(lt, word, i) ==
    \/ word \in {W_function, W_if, W_for, W_while, W_try}
    \/ (IsMatlabOctave(lt) /\ word \in {W_switch, W_classdef, W_parfor})
    \/ (lt = LEX_OCTAVE /\ word \in {W_do, W_unwind_protect})
    \/ (lt = LEX_SCILAB /\ word = W_select)
    \/ (lt = LEX_JULIA
        /\ word \in {W_type, W_quote, W_let, W_macro, W_do, W_struct, W_begin, W_module})

\* "switch", "classdef" and "parfor" open a block in Scilab too
IsBlockOpener_ScilabSwitch(lt, word, i) ==
    \/ (word = W_function
        /\ (lt = LEX_JULIA \/ LexGetNextChar(i + Len(word)) # "("))
    \/ word \in {W_if, W_for, W_while, W_try}
    \/ ((IsMatlabOctave(lt) \/ lt = LEX_SCILAB) /\ word \in {W_switch, W_classdef, W_parfor})
    \/ (lt = LEX_OCTAVE /\ word \in {W_do, W_unwind_protect})
    \/ (lt = LEX_SCILAB /\ word = W_select)
    \/ (lt = LEX_JULIA
        /\ word \in {W_type, W_quote, W_let, W_macro, W_do, W_struct, W_begin, W_module})

\* the word at i opens a block
IsBlockOpener(lt, word, i) ==
    \/ (word = W_function
        /\ (lt = LEX_JULIA \/ LexGetNextChar(i + Len(word)) # "("))
    \/ word \in {W_if, W_for, W_while, W_try}
    \/ (IsMatlabOctave(lt) /\ word \in {W_switch, W_classdef, W_parfor})
    \/ (lt = LEX_OCTAVE /\ word \in {W_do, W_unwind_protect})
    \/ (lt = LEX_SCILAB /\ word = W_select)
    \/ (lt = LEX_JULIA
        /\ word \in {W_type, W_quote, W_let, W_macro, W_do, W_struct, W_begin, W_module})

\* "end" closes a block in MATLAB and Octave only
KeywordFold_EndInMatlabOnly(lt, i, chPrev, endPos) ==
    LET word == LexGetRange(i)
    IN  IF IsBlockOpener(lt, word, i) THEN 1
        ELSE IF lt = LEX_OCTAVE /\ word = W_until THEN -1
        ELSE IF IsMatlabOctave(lt) /\ MatchAt(i, W_end) THEN -1
        ELSE 0

\* the change of levelNext a keyword that starts at i makes
KeywordFold(lt, i, chPrev, endPos) ==
    LET word == LexGetRange(i)
    IN  IF IsBlockOpener(lt, word, i) THEN 1
        ELSE IF lt = LEX_OCTAVE /\ word = W_until THEN -1
        ELSE IF MatchAt(i, W_end) THEN -1
        ELSE IF IsMatlabOctave(lt) /\ chPrev # "@"
                /\ word \in {W_methods, W_properties, W_events, W_enumeration}
        THEN LET pos == LexSkipSpaceTab(i + Len(word), endPos)
                 chEnd == SafeGetCharAt(pos, " ")
             IN  IF IsMatEndChar(chEnd, StyleAt(pos)) THEN 1
                 ELSE IF chEnd = "("
                         /\ StyleAt(LexSkipSpaceTab(pos + 1, endPos)) = "ATTRIBUTE"
                 THEN 1
                 ELSE 0
        ELSE 0

\* the change of levelNext the comment and triple-string rules make at position i
CommentFold(f, ch, chNext, stylePrev, style, styleNext, atEOL) ==
    LET stream ==
            IF props.foldComment /\ IsStreamCommentStyle(style)
            THEN IF IsMatlabOctave(lexType)
                 THEN IF IsNestedCommentStart(lexType, ch, chNext, f.visibleChars, f.i) THEN 1
                      ELSE IF IsNestedCommentEnd(lexType, ch, chNext, f.visibleChars, f.i) THEN -1
                      ELSE 0
                 ELSE IF ~IsStreamCommentStyle(stylePrev) THEN 1
                      ELSE IF ~IsStreamCommentStyle(styleNext) /\ ~atEOL THEN -1
                      ELSE 0
            ELSE 0
        lines ==
            IF props.foldComment /\ atEOL /\ IsCommentLine(f.lineCurrent)
            THEN IF ~IsCommentLine(f.lineCurrent - 1) /\ IsCommentLine(f.lineCurrent + 1) THEN 1
                 ELSE IF IsCommentLine(f.lineCurrent - 1) /\ ~IsCommentLine(f.lineCurrent + 1)
                 THEN -1
                 ELSE 0
            ELSE 0
        triple ==
            IF props.foldComment /\ IsSripleStringStyle(style)
            THEN IF ~IsSripleStringStyle(stylePrev) THEN 1
                 ELSE IF ~IsSripleStringStyle(styleNext) /\ ~atEOL THEN -1
                 ELSE 0
            ELSE 0
    IN  stream + lines + triple

\* the header flag is set also when the line ends at the level it began
FoldLevel_HeaderWhenEqual(levelUse, levelNext, visibleChars, foldCompact) ==
    levelUse + levelNext * LevelShift
    + (IF visibleChars = 0 /\ foldCompact THEN SC_FOLDLEVELWHITEFLAG ELSE 0)
    + (IF levelUse <= levelNext THEN SC_FOLDLEVELHEADERFLAG ELSE 0)

\* the value stored for a line
FoldLevel(levelUse, levelNext, visibleChars, foldCompact) ==
    levelUse + levelNext * LevelShift
    + (IF visibleChars = 0 /\ foldCompact THEN SC_FOLDLEVELWHITEFLAG ELSE 0)
    + (IF levelUse < levelNext THEN SC_FOLDLEVELHEADERFLAG ELSE 0)

\* levelNext and numBrace after the keyword and bracket rules at position i
\* the keyword test does not look at numBrace
KeywordAndBrace_NoBraceTest(f, levelNext, i, chPrev, ch, stylePrev, style) ==
    LET afterKeyword ==
            IF style = "KEYWORD" /\ stylePrev # "KEYWORD" /\ chPrev # "." /\ chPrev # ":"
            THEN levelNext + KeywordFold(lexType, i, chPrev, f.endPos)
            ELSE levelNext
    IN  IF style = "OPERATOR" /\ ch \in {"{", "[", "("}
        THEN [levelNext |-> afterKeyword + 1, numBrace |-> f.numBrace + 1]
        ELSE IF style = "OPERATOR" /\ ch \in {"}", "]", ")"}
        THEN [levelNext |-> afterKeyword - 1, numBrace |-> f.numBrace - 1]
        ELSE [levelNext |-> afterKeyword, numBrace |-> f.numBrace]

KeywordAndBrace(f, levelNext, i, chPrev, ch, stylePrev, style) ==
    LET afterKeyword ==
            IF style = "KEYWORD" /\ stylePrev # "KEYWORD" /\ f.numBrace = 0
               /\ chPrev # "." /\ chPrev # ":"
            THEN levelNext + KeywordFold(lexType, i, chPrev, f.endPos)
            ELSE levelNext
    IN  IF style = "OPERATOR" /\ ch \in {"{", "[", "("}
        THEN [levelNext |-> afterKeyword + 1, numBrace |-> f.numBrace + 1]
        ELSE IF style = "OPERATOR" /\ ch \in {"}", "]", ")"}
        THEN [levelNext |-> afterKeyword - 1, numBrace |-> f.numBrace - 1]
        ELSE [levelNext |-> afterKeyword, numBrace |-> f.numBrace]

\* one iteration of for (i = startPos; i < endPos; i++): the frame and the level written
FoldIteration(f) ==
    LET chPrev == f.ch
        ch == f.chNext
        chNext == SafeGetCharAt(f.i + 1, " ")
        stylePrev == f.style
        style == f.styleNext
        styleNext == StyleAt(f.i + 1)
        atEOL == (ch = "\r" /\ chNext # "\n") \/ ch = "\n"
        level1 == f.levelNext + CommentFold(f, ch, chNext, stylePrev, style, styleNext, atEOL)
        kb == KeywordAndBrace(f, level1, f.i, chPrev, ch, stylePrev, style)
        visibleChars == IF ~isspacechar(ch) THEN f.visibleChars + 1 ELSE f.visibleChars
        lineDone == atEOL \/ f.i = f.endPos - 1
        f1 == [f EXCEPT !.ch = ch, !.chNext = chNext, !.style = style, !.styleNext = styleNext,
                        !.levelNext = kb.levelNext, !.numBrace = kb.numBrace,
                        !.visibleChars = IF lineDone THEN 0 ELSE visibleChars,
                        !.lineCurrent = IF lineDone THEN f.lineCurrent + 1 ELSE f.lineCurrent,
                        !.levelCurrent = IF lineDone THEN kb.levelNext ELSE f.levelCurrent,
                        !.i = f.i + 1,
                        !.pc = IF f.i + 1 < f.endPos THEN "loop" ELSE "done"]
    IN  [frame |-> f1,
         write |-> lineDone,
         line |-> f.lineCurrent,
         lev |-> FoldLevel(f.levelCurrent, kb.levelNext, visibleChars, props.foldCompact)]

\* the frame when the loop is first reached
StartFoldFrame(startPos, length, initStyle) ==
    LET lineCurrent == GetLine(startPos)
        levelCurrent == IF lineCurrent > 0
                        THEN LevelAt(lineCurrent - 1) \div LevelShift
                        ELSE SC_FOLDLEVELBASE
    IN  [startPos |-> startPos,
         endPos |-> startPos + length,
         i |-> startPos,
         visibleChars |-> 0,
         numBrace |-> 0,
         lineCurrent |-> lineCurrent,
         levelCurrent |-> levelCurrent,
         levelNext |-> levelCurrent,
         ch |-> NUL,
         chNext |-> SafeGetCharAt(startPos, NUL),
         style |-> initStyle,
         styleNext |-> StyleAt(startPos),
         pc |-> IF startPos < startPos + length THEN "loop" ELSE "done"]

----------------------------------------------------------------------------
\* The host: one scan, then a re-scan of a suffix, a scan of the buffer after an edit, or
\* the fold pass and a second fold pass of a suffix

NoLineStates == [l \in 0..GetLine(Length) |-> 0]

NoLevels == [l \in 0..GetLine(Length) |-> SC_FOLDLEVELBASE]

\* nothing has been kept yet
NoOutcome ==
    [styles |-> <<>>, lineStates |-> <<>>, state |-> "DEFAULT", end |-> 0, levels |-> <<>>]

\* the state when a scan of [startPos, startPos + length) reaches its loop; before it
\* the host holds initStyle as the style of the position before startPos and stored as
\* the line state of the line before it
InitWith(d, lt, wl, pr, startPos, length, initStyle, stored) ==
    /\ doc = d
    /\ lexType = lt
    /\ lists = wl
    /\ props = pr
    /\ phase = "lex"
    /\ lx = StartScan(startPos, length, initStyle,
                      [p \in 0..(Len(d) - 1) |-> IF p < startPos THEN initStyle ELSE "DEFAULT"],
                      [l \in DOMAIN NoLineStates |-> IF l < GetLine(startPos) THEN stored ELSE 0])
    /\ levels = NoLevels
    /\ fd = [StartFoldFrame(0, 0, "DEFAULT") EXCEPT !.pc = "idle"]
    /\ full = NoOutcome

Scanning == phase \in {"lex", "relex", "edit"}

\* the phase the host is in when the scan it was in has returned
Scanned == CASE phase = "lex" -> "lexed" [] phase = "relex" -> "relexed" [] OTHER -> "edited"

ScanStep ==
    /\ Scanning
    /\ lx.pc = "loop"
    /\ lx' = Iteration(lx)
    /\ UNCHANGED <<doc, lexType, lists, props, phase, fd, levels, full>>

RegexFlagsStep ==
    /\ Scanning
    /\ lx.pc = "regexFlags"
    /\ lx' = RegexFlags(lx)
    /\ UNCHANGED <<doc, lexType, lists, props, phase, fd, levels, full>>

JuliaSkipStep ==
    /\ Scanning
    /\ lx.pc = "juliaSkip"
    /\ lx' = JuliaSkip(lx)
    /\ UNCHANGED <<doc, lexType, lists, props, phase, fd, levels, full>>

\* the scan returns without sc.Complete()
ScanComplete_NoComplete ==
    /\ Scanning
    /\ lx.pc = "complete"
    /\ lx' = [lx EXCEPT !.pc = "done"]
    /\ phase' = Scanned
    /\ UNCHANGED <<doc, lexType, lists, props, fd, levels, full>>

\* sc.Complete()
ScanComplete ==
    /\ Scanning
    /\ lx.pc = "complete"
    /\ lx' = [Complete(lx) EXCEPT !.pc = "done"]
    /\ phase' = Scanned
    /\ UNCHANGED <<doc, lexType, lists, props, fd, levels, full>>

\* the positions a re-scan may start at: the line starts inside what was styled
RescanStarts ==
    {p \in 1..(Length - 1) : p <= lx.startPos + lx.length /\ LineStart(GetLine(p)) = p}

\* the host scans again from a line start to the end of the document
Rescan ==
    /\ phase = "lexed"
    /\ \E p \in RescanStarts :
          lx' = StartScan(p, Length - p, lx.styles[p - 1], lx.styles, lx.lineStates)
    /\ full' = [full EXCEPT !.styles = lx.styles, !.lineStates = lx.lineStates,
                            !.state = lx.state, !.end = lx.startPos + lx.length]
    /\ phase' = "relex"
    /\ UNCHANGED <<doc, lexType, lists, props, fd, levels>>

\* the last character of the buffer is deleted and the host scans the buffer again
\* from position 0
Truncate ==
    /\ phase = "lexed"
    /\ Length >= 2
    /\ doc' = SubSeq(doc, 1, Length - 1)
    /\ full' = [full EXCEPT !.styles = lx.styles, !.lineStates = lx.lineStates,
                            !.state = lx.state, !.end = lx.startPos + lx.length]
    /\ lx' = StartScan(0, Length, "DEFAULT", [p \in 0..(Length - 1) |-> "DEFAULT"],
                       NoLineStates)'
    /\ phase' = "edit"
    /\ UNCHANGED <<lexType, lists, props, fd, levels>>

\* the host folds the range it had scanned
StartFold ==
    /\ phase = "lexed"
    /\ fd' = StartFoldFrame(lx.startPos, lx.length, "DEFAULT")
    /\ phase' = "fold"
    /\ UNCHANGED <<doc, lexType, lists, props, lx, levels, full>>

\* the line starts a second fold pass may start at
RefoldStarts ==
    {p \in (fd.startPos + 1)..(fd.endPos - 1) : LineStart(GetLine(p)) = p}

\* the host folds again from a line start to the end of the range it had folded, with
\* the levels the first pass stored and the style of the position before the line start
Refold ==
    /\ phase = "folded"
    /\ \E p \in RefoldStarts : fd' = StartFoldFrame(p, fd.endPos - p, StyleAt(p - 1))
    /\ full' = [full EXCEPT !.levels = levels]
    /\ phase' = "refold"
    /\ UNCHANGED <<doc, lexType, lists, props, lx, levels>>

FoldStep ==
    /\ phase \in {"fold", "refold"}
    /\ fd.pc = "loop"
    /\ LET r == FoldIteration(fd)
       IN  /\ fd' = r.frame
           /\ levels' = IF r.write
                        THEN [l \in DOMAIN levels |-> IF l = r.line THEN r.lev ELSE levels[l]]
                        ELSE levels
           /\ phase' = IF r.frame.pc # "done" THEN phase
                        ELSE IF phase = "fold" THEN "folded" ELSE "refolded"
    /\ UNCHANGED <<doc, lexType, lists, props, lx, full>>

Next ==
    \/ ScanStep
    \/ RegexFlagsStep
    \/ JuliaSkipStep
    \/ ScanComplete
    \/ Rescan
    \/ Truncate
    \/ StartFold
    \/ Refold
    \/ FoldStep

----------------------------------------------------------------------------
\* Documents: concatenations of at most max fragments

RECURSIVE Flatten(_)
Flatten(ss) == IF ss = <<>> THEN <<>> ELSE Head(ss) \o Flatten(Tail(ss))

DocsOver(frags, max) == {Flatten(fs) : fs \in UNION {[1..k -> frags] : k \in 1..max}}

NoLists == [keywords |-> {}, attributes |-> {}, commands |-> {},
            function1 |-> {}, function2 |-> {}]

DefaultProps == [foldComment |-> FALSE, foldCompact |-> TRUE]

AllProps == [foldComment : BOOLEAN, foldCompact : BOOLEAN]

\* a family of inputs: documents, dialects, word lists, properties, whether the first
\* scan may stop before the end of the document, and the stored states [style, level]
\* a first scan may resume from at a later line start
Family(docs, dialects, wl, pr, cut, resume) ==
    [docs |-> docs, dialects |-> dialects, lists |-> wl, props |-> pr, cut |-> cut,
     resume |-> resume]

RangeLengths(f, d) == IF f.cut THEN 1..Len(d) ELSE {Len(d)}

\* the line starts after position 0 of document d
LineStartsOf(d) == {p \in 1..(Len(d) - 1) : d[p] = "\n"}

InitFrom(families) ==
    \E f \in families :
        \E d \in f.docs, lt \in f.dialects, pr \in f.props :
            \/ \E length \in RangeLengths(f, d) :
                   InitWith(d, lt, f.lists, pr, 0, length, "DEFAULT", 0)
            \/ \E r \in f.resume, p \in LineStartsOf(d) :
                   InitWith(d, lt, f.lists, pr, p, Len(d) - p, r.style, r.level)

\* Julia: regex literals with flags, and "::" with blanks after it: the documents
\* that take the scan through its two inner loops
MaxLoop == 3

LoopFragments == {<<"r", "\"">>, <<"\"", "i">>, <<":", ":", " ">>, <<"a", "\n">>}

LoopFamily(cut) == Family(DocsOver(LoopFragments, MaxLoop), {LEX_JULIA}, NoLists, {DefaultProps}, cut, {})

\* operands, quotes, an empty double-quoted string, a blank and an operator
MaxQuote == 3

QuoteFragments == {<<"a">>, <<"'">>, <<"\"", "\"">>, <<" ">>, <<"+">>}

QuoteFamily == Family(DocsOver(QuoteFragments, MaxQuote), {LEX_MATLAB, LEX_OCTAVE}, NoLists, {DefaultProps}, FALSE, {})

\* Octave test sections: "%!test" opens one, "%!x" and "%! x" are lines of it
MaxTest == 2

TestFragments ==
    {<<"%", "!", "t", "e", "s", "t", "\n">>, <<"%", "!", "x", "\n">>, <<"%", "!", " ", "x", "\n">>,
     <<"x", "\n">>}

TestFamily == Family(DocsOver(TestFragments, MaxTest), {LEX_OCTAVE}, NoLists, {DefaultProps}, FALSE, {})

Init == InitFrom({LoopFamily(FALSE), QuoteFamily, TestFamily})

Spec == Init /\ [][Next]_vars

----------------------------------------------------------------------------
\* C1: a re-scan that starts at a line start, with the style at the end of the previous
\* line and that line's stored line state, gives every position from there to the end
\* of the document the style, and every line the line state, that the single scan of
\* the whole document from position 0 gave them.
C1_RescanEquivalence ==
    phase = "relexed" =>
        /\ \A p \in lx.startPos..(Length - 1) : lx.styles[p] = full.styles[p]
        /\ \A l \in GetLine(lx.startPos)..GetLine(Length) :
               lx.lineStates[l] = full.lineStates[l]

----------------------------------------------------------------------------
\* Scans of a range [0, length) that may stop before the end of the document

\* quotes, line ends, C-style comment delimiters and a backtick
MaxSticky == 3

StickyFragments == {<<"'">>, <<"\"">>, <<"\n">>, <<"/", "*">>, <<"*", "/">>, <<BackTick>>}

StickyFamily == Family(DocsOver(StickyFragments, MaxSticky), {LEX_MATLAB, LEX_JULIA}, NoLists, {DefaultProps}, TRUE, {})

InitRange == InitFrom({LoopFamily(TRUE), StickyFamily})

SpecRange == InitRange /\ [][Next]_vars

InRange(p) == lx.startPos <= p /\ p < lx.startPos + lx.length

\* C2: when a scan of a range has completed, every position of the range has been given
\* a style exactly once and no position outside it has been given one; while the scan
\* runs no position is given a style twice. This covers steps that advance over several
\* characters and ranges that end in the middle of a token.
C2_TotalCoverage ==
    /\ \A p \in DOMAIN lx.written : lx.written[p] <= 1
    /\ lx.pc = "done" =>
           \A p \in DOMAIN lx.written : lx.written[p] = IF InRange(p) THEN 1 ELSE 0

\* a completed scan whose range ends between the "r" and the quote of a Julia regex
\* literal: the step that met "r" advanced past the end of the range
C2_Witness ==
    /\ lx.pc = "done"
    /\ lexType = LEX_JULIA
    /\ lx.length < Length
    /\ doc[lx.length] = "r"
    /\ doc[lx.length + 1] = "\""
    /\ lx.state = "REGEX"

\* C3: the scan's loops finish: no reachable state of the flag-skipping loop or of the
\* blank-skipping loop is one whose condition holds and which a further pass leaves
\* unchanged (such a state repeats forever), also when the flags or blanks are cut off
\* by the end of the range.
C3_InnerLoopsFinish ==
    /\ (lx.pc = "regexFlags" /\ lx.chNext \in {"i", "m", "s", "x"}) => Forward(lx) # lx
    /\ (lx.pc = "juliaSkip" /\ IsSpaceOrTab(lx.ch)) => Forward(lx) # lx

----------------------------------------------------------------------------
\* The quote character met in the default state

\* the loop body is about to look at a "'" in the default state
QuoteMet(s) ==
    /\ s.pc = "loop"
    /\ SwitchState(s).pc = "loop"
    /\ SwitchState(s).state = "DEFAULT"
    /\ SwitchState(s).ch = "'"

Significant(s) == {p \in 0..(s.currentPos - 1) : ~isspacechar(SafeGetCharAt(p, " "))}

\* the style the scan has decided for position p < currentPos
DecidedStyle(s, p) == IF p < s.startSeg THEN s.styles[p] ELSE s.state

OperandStyles == {"IDENTIFIER", "ATTRIBUTE", "INTERNALCOMMAND", "FUNCTION", "FUNCTION1",
                  "FUNCTION2", "NUMBER", "HEXNUM"}

\* the last character before currentPos that is not white space ends a non-keyword
\* identifier or a number, or is a closing bracket or a transpose operator
PrecedingIsOperand(s) ==
    /\ Significant(s) # {}
    /\ LET q == CHOOSE p \in Significant(s) : \A r \in Significant(s) : r <= p
       IN  \/ DecidedStyle(s, q) \in OperandStyles
           \/ /\ DecidedStyle(s, q) = "OPERATOR"
              /\ SafeGetCharAt(q, " ") \in {")", "]", "}", "'"}

\* C4: a "'" met in the default state is tagged operator (transpose) exactly when the
\* preceding significant (non-white-space) token is a non-keyword identifier, a number,
\* a closing bracket or another transpose, and otherwise opens a string.
C4_TransposeIffOperand ==
    QuoteMet(lx) =>
        (DefaultState(SwitchState(lx)).state = "OPERATOR" <=> PrecedingIsOperand(SwitchState(lx)))

ClosedStates == {"STRING", "DOUBLEQUOTESTRING", "REGEX", "RAW_STRING2", "TRIPLE_STRING2",
                 "BACKTICK", "COMMENT", "COMMENTBLOCK"}

\* C5: whenever the scan returns to the default state from a string of any kind or from
\* a line or block comment, isTransposeOperator is false.
C5_FlagClearedOnReturn ==
    /\ (lx.pc = "loop" /\ lx.state \in ClosedStates /\ SwitchState(lx).pc = "loop"
            /\ SwitchState(lx).state = "DEFAULT")
           => ~SwitchState(lx).isTransposeOperator
    /\ (lx.pc = "regexFlags" /\ lx.chNext \notin {"i", "m", "s", "x"})
           => ~ForwardSetState(lx, "DEFAULT").isTransposeOperator

----------------------------------------------------------------------------
\* MATLAB/Octave block comments: "%{" and "%}" lines, with LF or CR LF line ends

LF == <<"\n">>

CRLF == <<"\r", "\n">>

MaxComment == 3

CommentFragments(eol) == {<<"%", "{">> \o eol, <<"%", "}">> \o eol, <<"x">> \o eol}

\* the example of two nested comments around a line of text
NestedExample == <<"%", "{", "\n", "%", "{", "\n", "x", "\n", "%", "}", "\n", "%", "}", "\n">>

CommentDocs ==
    DocsOver(CommentFragments(LF), MaxComment) \cup DocsOver(CommentFragments(CRLF), MaxComment)
        \cup {NestedExample}

CommentFamily == Family(CommentDocs, {LEX_MATLAB, LEX_OCTAVE}, NoLists, {DefaultProps}, FALSE, {})

\* scans that resume at a later line start from any stored style and line state
MaxStored == 2

MaxResume == 2

ResumeStates == [style : {"DEFAULT", "COMMENTBLOCK"}, level : 0..MaxStored]

ResumeFamily ==
    Family(DocsOver(CommentFragments(LF), MaxResume), {LEX_MATLAB}, NoLists, {DefaultProps},
           FALSE, ResumeStates)

InitLevel == InitFrom({LoopFamily(FALSE), CommentFamily, ResumeFamily})

SpecLevel == InitLevel /\ [][Next]_vars

LastLine == GetLine(Length)

Lines == 0..LastLine

NextLineStart(l) == IF l < LastLine THEN LineStart(l + 1) ELSE Length

\* line l is "%" and c and then only its line terminator
MarkerLine(l, c) ==
    /\ LineStart(l) + 1 < Length
    /\ SafeGetCharAt(LineStart(l), " ") = "%"
    /\ SafeGetCharAt(LineStart(l) + 1, " ") = c
    /\ \A p \in (LineStart(l) + 2)..(NextLineStart(l) - 1) : SafeGetCharAt(p, " ") \in {"\r", "\n"}

Opener(l) == MarkerLine(l, "{")

Closer(l) == MarkerLine(l, "}")

\* openers minus closers in lines 0..l
Depth(l) ==
    Cardinality({k \in 0..l : Opener(k)}) - Cardinality({k \in 0..l : Closer(k)})

FirstOpener == CHOOSE a \in Lines : Opener(a) /\ \A k \in Lines : Opener(k) => a <= k

LastCloser == CHOOSE b \in Lines : Closer(b) /\ \A k \in Lines : Closer(k) => k <= b

\* the markers of the document form one properly nested comment
ProperlyNested ==
    /\ \E a \in Lines : Opener(a)
    /\ \E b \in Lines : Closer(b)
    /\ \A k \in Lines : k < FirstOpener => ~Closer(k)
    /\ \A k \in Lines : k > LastCloser => ~Opener(k)
    /\ \A k \in Lines : (FirstOpener <= k /\ k < LastCloser) => Depth(k) > 0
    /\ Depth(LastCloser) = 0

\* C6: in MATLAB and Octave, for a properly nested sequence of "%{" and "%}" markers each
\* alone on its own line, the depth stored at each line end is the number of openers
\* minus the number of closers so far, every character from the first opener to the last
\* closer is tagged block comment, and after the last closer the scan is back in the
\* default state at depth 0.
C6_NestedComments ==
    (IsMatlabOctave(lexType) /\ phase = "lexed" /\ lx.startPos = 0 /\ ProperlyNested) =>
        /\ \A l \in Lines : l < LastLine => lx.lineStates[l] = Depth(l)
        /\ \A p \in LineStart(FirstOpener)..(LineStart(LastCloser) + 1) :
               lx.styles[p] = "COMMENTBLOCK"
        /\ LineStart(LastCloser) + 2 < Length => lx.styles[LineStart(LastCloser) + 2] = "DEFAULT"
        /\ lx.commentLevel = 0

\* the last character of line l, for the lines that have a terminator
LineEndOf(l) == LineStart(l + 1) - 1

\* the line state writes made at position p
WritesAt(p) == {k \in DOMAIN lx.lineWrites : lx.lineWrites[k].pos = p}

\* C7: commentLevel is never negative, an excess closer leaving it at 0, and the line
\* state written for each line is the commentLevel in effect at that line's end: every
\* write is made for the line the scan is in, with a non-negative value; every line end
\* the scan has passed has been written once; the value stored for the line just ended is
\* the commentLevel the scan goes on with.
C7_LevelAndLineState ==
    /\ lx.commentLevel >= 0
    /\ \A k \in DOMAIN lx.lineWrites :
           /\ lx.lineWrites[k].value >= 0
           /\ lx.lineWrites[k].line = GetLine(lx.lineWrites[k].pos)
           /\ lx.lineWrites[k].pos = Length \/ lx.lineWrites[k].pos = LineEndOf(lx.lineWrites[k].line)
    /\ \A l \in Lines :
           (l < LastLine /\ lx.startPos <= LineEndOf(l) /\ LineEndOf(l) < lx.currentPos
                /\ lx.pc \in {"loop", "complete", "done"})
               => Cardinality(WritesAt(LineEndOf(l))) = 1
    /\ \A k \in DOMAIN lx.lineWrites :
           (k = Len(lx.lineWrites) /\ lx.lineWrites[k].pos = lx.currentPos - 1)
               => /\ lx.lineStates[lx.lineWrites[k].line] = lx.commentLevel
                  /\ lx.lineWrites[k].value = lx.commentLevel

\* a scan that resumed at a "%}" line from a stored block comment style and a stored
\* line state of 0 has completed: the excess closer was met in the block comment state
\* at depth 0 and the line state written for its line is 0
C7_Witness ==
    /\ IsMatlabOctave(lexType)
    /\ phase = "lexed"
    /\ lx.startPos > 0
    /\ lx.styles[lx.startPos - 1] = "COMMENTBLOCK"
    /\ lx.lineStates[GetLine(lx.startPos) - 1] = 0
    /\ Closer(GetLine(lx.startPos))
    /\ lx.styles[lx.startPos] = "COMMENTBLOCK"
    /\ lx.lineStates[GetLine(lx.startPos)] = 0

----------------------------------------------------------------------------
\* Julia block comments

MaxJulia == 4

JuliaFragments == {<<"#", "=">>, <<"=", "#">>, <<"a">>, <<" ">>}

\* #= outer #= inner =# still-comment =#
JuliaExample ==
    <<"#", "=", " ", "o", "u", "t", "e", "r", " ", "#", "=", " ", "i", "n", "n",
      "e", "r", " ", "=", "#", " ", "s", "t", "i", "l", "l", "-", "c", "o", "m",
      "m", "e", "n", "t", " ", "=", "#">>

JuliaFamily ==
    Family(DocsOver(JuliaFragments, MaxJulia) \cup {JuliaExample}, {LEX_JULIA}, NoLists,
           {DefaultProps}, FALSE, {})

InitJulia == InitFrom({LoopFamily(FALSE), JuliaFamily})

SpecJulia == InitJulia /\ [][Next]_vars

ExampleScanned == doc = JuliaExample /\ lexType = LEX_JULIA /\ phase = "lexed"

\* "=#" ends just before position p of the example
ExampleCloserBefore(p) == JuliaExample[p - 1] = "=" /\ JuliaExample[p] = "#"

\* the position after the first "=#" of the example, and the example's last position
AfterFirstCloser ==
    CHOOSE p \in 2..Len(JuliaExample) :
        ExampleCloserBefore(p) /\ \A q \in 2..(p - 1) : ~ExampleCloserBefore(q)

LastOfExample == Len(JuliaExample) - 1

\* C8 as stated: Julia block comments do not nest, and in the example the first "=#"
\* ends the comment and no character of the remaining text " still-comment =#" is
\* tagged as a line or block comment.
C8_RestIsNoComment ==
    ExampleScanned =>
        \A p \in AfterFirstCloser..LastOfExample : lx.styles[p] \notin {"COMMENT", "COMMENTBLOCK"}

\* C8 amended: in Julia "#=" inside a block comment does not increase the depth, which
\* stays 0, and the first "=#" ends the comment; in the example the comment is
\* "#= outer #= inner =#", every character of " still-comment =" after it is tagged
\* default, identifier or operator, and the final "#" is tagged line comment.
C8_FirstCloserEnds ==
    /\ lexType = LEX_JULIA => lx.commentLevel = 0
    /\ (lexType = LEX_JULIA /\ lx.pc = "loop" /\ lx.state = "COMMENTBLOCK"
            /\ lx.ch = "=" /\ lx.chNext = "#")
           => /\ SwitchState(lx).state = "DEFAULT"
              /\ SwitchState(lx).currentPos = lx.currentPos + 2
    /\ ExampleScanned =>
           /\ \A p \in 0..(AfterFirstCloser - 1) : lx.styles[p] = "COMMENTBLOCK"
           /\ \A p \in AfterFirstCloser..(LastOfExample - 1) :
                  lx.styles[p] \in {"DEFAULT", "IDENTIFIER", "OPERATOR"}
           /\ lx.styles[LastOfExample] = "COMMENT"

\* the scan of the example has completed
C8_Witness ==
    /\ ExampleScanned
    /\ lx.styles[AfterFirstCloser - 1] = "COMMENTBLOCK"
    /\ lx.styles[AfterFirstCloser + 1] = "IDENTIFIER"

----------------------------------------------------------------------------
\* Strings and block comments that are not terminated

StickyStates == {"STRING", "DOUBLEQUOTESTRING", "REGEX", "RAW_STRING2", "TRIPLE_STRING2",
                 "BACKTICK", "COMMENTBLOCK"}

CharAt(p) == SafeGetCharAt(p, " ")

\* the text at position p is a closing delimiter of state st
CloserAt(p, st, visibleChars) ==
    CASE st = "STRING" -> CharAt(p) = "'" /\ CharAt(p + 1) # "'"
      [] st \in {"DOUBLEQUOTESTRING", "REGEX", "RAW_STRING2"} -> CharAt(p) = "\""
      [] st = "TRIPLE_STRING2" -> MatchAt(p, <<"\"", "\"", "\"">>)
      [] st = "BACKTICK" -> CharAt(p) = BackTick
      [] st = "COMMENTBLOCK" ->
            \/ MatchAt(p, <<"*", "/">>)
            \/ (lexType = LEX_JULIA /\ MatchAt(p, <<"=", "#">>))
            \/ /\ IsMatlabOctave(lexType)
               /\ visibleChars = 0
               /\ CharAt(p) \in {"%", "#"}
               /\ CharAt(p + 1) = "}"
      [] OTHER -> FALSE

\* the text at position p is an opening delimiter of state st
OpenerAt(p, st) ==
    CASE st = "STRING" -> CharAt(p) = "'"
      [] st = "DOUBLEQUOTESTRING" ->
            \/ CharAt(p) = "\""
            \/ (lexType = LEX_JULIA /\ CharAt(p) \in {"b", "L", "I", "E", "v"}
                    /\ CharAt(p + 1) = "\"")
      [] st = "REGEX" -> lexType = LEX_JULIA /\ MatchAt(p, <<"r", "\"">>)
      [] st = "RAW_STRING2" -> MatchAt(p, RawQuote)
      [] st = "TRIPLE_STRING2" ->
            MatchAt(p, <<"\"", "\"", "\"">>) \/ MatchAt(p, RawQuote \o <<"\"", "\"", "\"">>)
      [] st = "BACKTICK" -> CharAt(p) = BackTick
      [] st = "COMMENTBLOCK" ->
            \/ MatchAt(p, <<"/", "*">>)
            \/ (lexType = LEX_JULIA /\ MatchAt(p, <<"#", "=">>))
            \/ (IsMatlabOctave(lexType) /\ CharAt(p) \in {"%", "#"} /\ CharAt(p + 1) = "{")
      [] OTHER -> FALSE

InSticky == lx.pc = "loop" /\ lx.state \in StickyStates

LastOfRange == lx.startPos + lx.length - 1

----------------------------------------------------------------------------
\* Folding of brackets and block keywords

MaxFold == 3

FoldFragments == {<<"[">>, <<"]">>, <<"i", "f", " ">>, <<"e", "n", "d">>, <<"\n">>}

\* x = [if, for]
FoldExample == <<"x", " ", "=", " ", "[", "i", "f", ",", " ", "f", "o", "r", "]">>

FoldLists == [NoLists EXCEPT !.keywords = {W_if, W_for, W_end}]

FoldFamily ==
    Family(DocsOver(FoldFragments, MaxFold) \cup {FoldExample}, {LEX_MATLAB}, FoldLists,
           AllProps, FALSE, {})

InitFold == InitFrom({LoopFamily(FALSE), FoldFamily})

SpecFold == InitFold /\ [][Next]_vars

Folding == phase = "fold" /\ fd.pc = "loop"

OpeningBrackets == {"{", "[", "("}

ClosingBrackets == {"}", "]", ")"}

\* the positions before i, from the start of the fold pass, of operator style with a
\* character of set brackets
BracketsBefore(i, brackets) ==
    {p \in fd.startPos..(i - 1) : StyleAt(p) = "OPERATOR" /\ CharAt(p) \in brackets}

HasHeaderFlag(lev) == ((lev % LevelShift) \div SC_FOLDLEVELHEADERFLAG) % 2 = 1

\* C10: numBrace is the number of brackets opened minus the number closed since the
\* start of the fold pass; an opening bracket adds 1 to the fold level and to numBrace
\* and a closing bracket subtracts 1 from both; a character of keyword style leaves the
\* fold level as it is whenever numBrace is not 0; the line "x = [if, for]" is no fold
\* header and ends at the level it began.
C10_KeywordsInsideBrackets ==
    /\ phase \in {"fold", "folded"} =>
           fd.numBrace = Cardinality(BracketsBefore(fd.i, OpeningBrackets))
                             - Cardinality(BracketsBefore(fd.i, ClosingBrackets))
    /\ (Folding /\ fd.styleNext = "OPERATOR" /\ fd.chNext \in OpeningBrackets)
           => /\ FoldIteration(fd).frame.levelNext = fd.levelNext + 1
              /\ FoldIteration(fd).frame.numBrace = fd.numBrace + 1
    /\ (Folding /\ fd.styleNext = "OPERATOR" /\ fd.chNext \in ClosingBrackets)
           => /\ FoldIteration(fd).frame.levelNext = fd.levelNext - 1
              /\ FoldIteration(fd).frame.numBrace = fd.numBrace - 1
    /\ (Folding /\ fd.styleNext = "KEYWORD" /\ fd.numBrace # 0)
           => FoldIteration(fd).frame.levelNext = fd.levelNext
    /\ (phase = "folded" /\ doc = FoldExample)
           => /\ ~HasHeaderFlag(levels[0])
              /\ fd.levelNext = SC_FOLDLEVELBASE
              /\ levels[0] \div LevelShift = SC_FOLDLEVELBASE

\* the fold pass has just passed the first character of the keyword "if" inside one
\* open bracket, and the fold level is the base level plus the bracket's 1
C10_Witness ==
    /\ phase = "fold"
    /\ fd.style = "KEYWORD"
    /\ fd.ch = "i"
    /\ fd.chNext = "f"
    /\ LexGetRange(fd.i - 1) = W_if
    /\ fd.numBrace = 1
    /\ fd.levelNext = SC_FOLDLEVELBASE + 1

----------------------------------------------------------------------------
\* Folding of the block keywords "function" and "end"

MaxFunction == 3

FunctionFragments == {W_function, <<"(">>, <<" ">>, <<"y">>, <<".">>}

\* function y = f(x)
FunctionDefinition ==
    W_function \o <<" ", "y", " ", "=", " ", "f", "(", "x", ")">>

\* f = function(x) x+1 end
FunctionLiteral ==
    <<"f", " ", "=", " ">> \o W_function \o <<"(", "x", ")", " ", "x", "+", "1", " ">> \o W_end

KeywordLists == [NoLists EXCEPT !.keywords = {W_function, W_if, W_end}]

FunctionFamily ==
    Family(DocsOver(FunctionFragments, MaxFunction) \cup {FunctionDefinition, FunctionLiteral},
           {LEX_MATLAB}, KeywordLists, {DefaultProps}, FALSE, {})

\* "end" with brackets, a period and block openers, in every dialect
MaxEnd == 3

EndFragments == {W_end, <<"i", "f", " ">>, <<"\n">>, <<"[">>, <<".">>}

EndFamily == Family(DocsOver(EndFragments, MaxEnd), Dialects, KeywordLists, {DefaultProps}, FALSE, {})

InitKeyword == InitFrom({LoopFamily(FALSE), FunctionFamily, EndFamily})

SpecKeyword == InitKeyword /\ [][Next]_vars

\* the fold pass is about to look at the first character of a keyword-tagged word w
\* outside brackets that no "." or ":" precedes
KeywordStart(w) ==
    /\ phase \in {"fold", "refold"}
    /\ fd.pc = "loop"
    /\ fd.styleNext = "KEYWORD"
    /\ fd.style # "KEYWORD"
    /\ fd.numBrace = 0
    /\ fd.ch \notin {".", ":"}
    /\ LexGetRange(fd.i) = w

\* the position after the word the fold pass is at
AfterWord == fd.i + Len(LexGetRange(fd.i))

----------------------------------------------------------------------------
\* C12: after a fold pass over the whole document, a second fold pass over a suffix that
\* starts at a line start, seeded with the level stored for the previous line and the
\* style at the end of the previous line, leaves for every line of the suffix the fold
\* level and flags the first pass stored, also when the suffix starts inside a bracket
\* that was opened on an earlier line.
C12_RefoldEquivalence ==
    (phase = "refolded" /\ lx.startPos = 0) =>
        \A l \in GetLine(fd.startPos)..LastLine : levels[l] = full.levels[l]

\* end, a line end, end
TwoEnds == W_end \o <<"\n">> \o W_end

----------------------------------------------------------------------------
\* The value the fold pass stores for a line

\* the first line of the fold pass, and the lines it has written so far
FirstFolded == GetLine(fd.startPos)

FoldedLines == IF fd.pc = "idle" THEN {} ELSE FirstFolded..(fd.lineCurrent - 1)

\* the parts of a stored value: the level below the flags, and the level above bit 16
LevelAtStart(lev) == lev % SC_FOLDLEVELWHITEFLAG

LevelAtEnd(lev) == lev \div LevelShift

\* the level the pass starts with: the end level stored for the line before the range
SeedLevel == IF FirstFolded > 0 THEN LevelAtEnd(levels[FirstFolded - 1]) ELSE SC_FOLDLEVELBASE

\* C14: for every line the fold pass writes, the stored value holds the level at line
\* start in its low part and the level at line end above bit 16; the level at line start
\* is the level at line end of the previous line, or for the first line of the range the
\* stored end level of the line before it; the header flag is set exactly when the level
\* at line start is lower than the level at line end.
C14_StoredLevel ==
    /\ (phase \in {"fold", "refold"} /\ fd.pc = "loop" /\ FoldIteration(fd).write)
           => /\ LevelAtStart(FoldIteration(fd).lev) = fd.levelCurrent
              /\ LevelAtEnd(FoldIteration(fd).lev) = FoldIteration(fd).frame.levelNext
              /\ FoldIteration(fd).line = GetLine(fd.i)
    /\ \A l \in FoldedLines :
           /\ LevelAtStart(levels[l]) =
                  IF l = FirstFolded THEN SeedLevel ELSE LevelAtEnd(levels[l - 1])
           /\ HasHeaderFlag(levels[l]) <=> LevelAtStart(levels[l]) < LevelAtEnd(levels[l])
           /\ l = fd.lineCurrent - 1 => LevelAtEnd(levels[l]) = fd.levelCurrent

\* a second fold pass that started at a later line, below a line that ends above the
\* base level, has written a line that is a fold header
C14_Witness ==
    /\ phase = "refolded"
    /\ FirstFolded > 0
    /\ SeedLevel > SC_FOLDLEVELBASE
    /\ \E l \in FoldedLines : HasHeaderFlag(levels[l])

----------------------------------------------------------------------------
\* The line state writes of one scan

\* position p is where line l ends: at its terminator, or for the last line at the end
\* of the buffer
EndsLine(p, l) == IF l < LastLine THEN p = LineEndOf(l) ELSE p = Length

\* C15: during one scan the line state is written exactly once for every line end
\* crossed, for strictly increasing line numbers that all lie inside the scanned range;
\* every write is made at a line end and to the line that contains that line end; the
\* scan's own line counter is the buffer's line number of the position the scan is at,
\* whatever advances over several characters were made.
C15_LineStateWrites ==
    /\ \A k \in DOMAIN lx.lineWrites :
           /\ lx.lineWrites[k].line = GetLine(lx.lineWrites[k].pos)
           /\ EndsLine(lx.lineWrites[k].pos, lx.lineWrites[k].line)
           /\ lx.lineWrites[k].line \in GetLine(lx.startPos)..GetLine(lx.startPos + lx.length)
           /\ \A j \in 1..(k - 1) : lx.lineWrites[j].line < lx.lineWrites[k].line
    /\ \A l \in Lines :
           (l < LastLine /\ lx.startPos <= LineEndOf(l) /\ LineEndOf(l) < lx.currentPos
                /\ lx.pc \in {"loop", "complete", "done"})
               => Cardinality({k \in DOMAIN lx.lineWrites : lx.lineWrites[k].line = l}) = 1
    /\ lx.pc = "loop" => lx.lineCurrent = GetLine(lx.currentPos)

----------------------------------------------------------------------------
\* Octave test sections

\* line l starts with "%!"
TestLine(l) == MatchAt(LineStart(l), <<"%", "!">>)

\* line l starts with "%!" and one of the words that open a test section
TestHeader(l) == TestLine(l) /\ \E w \in OctaveTestWords : MatchAt(LineStart(l) + 2, w)

\* a test header whose "%" the scan at hand has passed and tagged as a line comment
HeaderPassed(s) ==
    \E l \in Lines :
        /\ TestHeader(l)
        /\ s.startPos <= LineStart(l)
        /\ LineStart(l) < s.currentPos
        /\ DecidedStyle(s, LineStart(l)) = "COMMENT"

\* the loop body is about to look, in the default state, at the "%!" that starts a line
TestLineMet(s) ==
    /\ lexType = LEX_OCTAVE
    /\ s.pc = "loop"
    /\ SwitchState(s).state = "DEFAULT"
    /\ SwitchState(s).atLineStart
    /\ SwitchState(s).ch = "%"
    /\ SwitchState(s).chNext = "!"

WordStyles == {"IDENTIFIER", "KEYWORD", "ATTRIBUTE", "INTERNALCOMMAND", "FUNCTION",
               "FUNCTION1", "FUNCTION2"}

----------------------------------------------------------------------------
\* Tokens: identifiers and the word lists, numbers, prefixed strings

\* the word "a", and what follows it
MaxTail == 3

TailFragments == {<<"(">>, <<"{">>, <<" ">>}

WordDocs == {<<"a">>} \cup {<<"a">> \o t : t \in DocsOver(TailFragments, MaxTail)}

ListNames == {"keywords", "attributes", "commands", "function1", "function2"}

\* the word lists in which the lists named in S hold the word "a"
ListsWith(S) ==
    [keywords |-> IF "keywords" \in S THEN {<<"a">>} ELSE {},
     attributes |-> IF "attributes" \in S THEN {<<"a">>} ELSE {},
     commands |-> IF "commands" \in S THEN {<<"a">>} ELSE {},
     function1 |-> IF "function1" \in S THEN {<<"a", "(">>} ELSE {},
     function2 |-> IF "function2" \in S THEN {<<"a", "(">>} ELSE {}]

WordFamilies ==
    {Family(WordDocs, {LEX_MATLAB, LEX_JULIA}, ListsWith(S), {DefaultProps}, FALSE, {}) :
        S \in SUBSET ListNames}

\* digits and decimal points
MaxNumber == 4

NumberFragments == {<<"1">>, <<".">>, <<"x">>}

\* 1.2.3
NumberExample == <<"1", ".", "2", ".", "3">>

NumberFamily ==
    Family(DocsOver(NumberFragments, MaxNumber) \cup {NumberExample}, {LEX_MATLAB}, NoLists,
           {DefaultProps}, FALSE, {})

\* the string prefixes and a double quote
MaxPrefix == 3

PrefixFragments == {<<"r">>, <<"b">>, <<"r", "a", "w">>, <<"\"">>}

PrefixFamily ==
    Family(DocsOver(PrefixFragments, MaxPrefix), Dialects, NoLists, {DefaultProps}, FALSE, {})

InitToken == InitFrom(WordFamilies \cup {LoopFamily(FALSE), NumberFamily, PrefixFamily})

SpecToken == InitToken /\ [][Next]_vars

\* the first character at or after position p that is no white space, NUL if there is none
NextVisible(p) ==
    LET found == {i \in p..(Length - 1) : ~isspacechar(CharAt(i))}
    IN  IF found = {} THEN NUL ELSE CharAt(CHOOSE i \in found : \A j \in found : i <= j)

\* the rules for the word w that ends before position p, in the order of the claim
TagRules(w, p) ==
    <<[applies |-> w \in lists.keywords, tag |-> "KEYWORD"],
      [applies |-> w \in lists.attributes, tag |-> "ATTRIBUTE"],
      [applies |-> w \in lists.commands, tag |-> "INTERNALCOMMAND"],
      [applies |-> Append(w, "(") \in lists.function1, tag |-> "FUNCTION1"],
      [applies |-> Append(w, "(") \in lists.function2, tag |-> "FUNCTION2"],
      [applies |-> NextVisible(p) = "(", tag |-> "FUNCTION"],
      [applies |-> lexType = LEX_JULIA /\ NextVisible(p) = "{", tag |-> "ATTRIBUTE"],
      [applies |-> TRUE, tag |-> "IDENTIFIER"]>>

\* the tag of the first rule that applies
FirstTag(w, p) ==
    LET rules == TagRules(w, p)
        first == CHOOSE i \in DOMAIN rules :
                     rules[i].applies /\ \A j \in 1..(i - 1) : ~rules[j].applies
    IN  rules[first].tag

\* the loop body is about to look at the character that ends an identifier
IdentifierEnds(s) == s.pc = "loop" /\ s.state = "IDENTIFIER" /\ ~iswordstart(s.ch)

\* the text of the buffer from position a to position b - 1
Text(a, b) == [k \in 1..(b - a) |-> CharAt(a + k - 1)]

\* C17: when an identifier token ends its final tag is chosen by the first rule that
\* applies, in this order: keyword list; attribute list; internal-command list;
\* function list 1 (entry with "("); function list 2 (entry with "("); next
\* non-space character is "("; Julia only, next non-space character is "{"; otherwise
\* identifier. A word that is in several lists gets the tag of the earliest of them,
\* and the tag is given to every character of the word.
C17_ClassificationOrder ==
    IdentifierEnds(lx) =>
        /\ ClassifyIdentifier(lx) = FirstTag(Text(lx.startSeg, lx.currentPos), lx.currentPos)
        /\ \A p \in lx.startSeg..(lx.currentPos - 1) :
               Iteration(lx).styles[p] = FirstTag(Text(lx.startSeg, lx.currentPos), lx.currentPos)

\* the word "a" is in the keyword list, the attribute list and function list 1, "(" follows
\* it, and the scan has tagged it keyword
C17_Witness ==
    /\ phase = "lexed"
    /\ doc = <<"a", "(">>
    /\ lists = ListsWith({"keywords", "attributes", "function1"})
    /\ lx.styles[0] = "KEYWORD"

\* the pending segment of the scan holds a decimal point
PointInSegment(s) == \E p \in s.startSeg..(s.currentPos - 1) : CharAt(p) = "."

\* C18: a number token contains at most one decimal point: in the number state, at a "."
\* that follows a digit run which already contains a ".", the number token ends; in
\* "1.2.3" the number token is "1.2" and the second "." is not part of it.
C18_OneDecimalPoint ==
    /\ (lx.pc = "loop" /\ lx.state = "NUMBER" /\ lx.ch = "." /\ PointInSegment(lx))
           => SwitchState(lx).state # "NUMBER"
    /\ lx.state = "NUMBER"
           => Cardinality({p \in lx.startSeg..(lx.currentPos - 1) : CharAt(p) = "."}) <= 1

\* the loop body is about to look, in the default state, at prefix followed by a quote
PrefixMet(s, prefix) ==
    /\ s.pc = "loop"
    /\ SwitchState(s).pc = "loop"
    /\ SwitchState(s).state = "DEFAULT"
    /\ MatchAt(s.currentPos, Append(prefix, "\""))
    /\ s.currentPos + Len(prefix) < Length

StringPrefixes == {<<"r">>, <<"b">>, <<"L">>, <<"I">>, <<"E">>, <<"v">>, <<"r", "a", "w">>}

\* C19: the prefixed string forms r", b" L" I" E" v" and raw" (and raw""") start a
\* prefixed string token only in Julia; in MATLAB, Octave, Scilab and Gnuplot the prefix
\* letters are tokenized as an identifier and the quote after them opens an ordinary
\* double-quoted string.
C19_PrefixesJuliaOnly ==
    /\ lexType # LEX_JULIA => lx.state \notin {"REGEX", "RAW_STRING2"}
    /\ (lexType # LEX_JULIA /\ lx.state \in {"DOUBLEQUOTESTRING", "TRIPLE_STRING2"}
            /\ lx.startPos <= lx.startSeg /\ lx.startSeg < Length /\ lx.pc = "loop")
           => CharAt(lx.startSeg) = "\""
    /\ \A prefix \in StringPrefixes :
           (lexType # LEX_JULIA /\ PrefixMet(lx, prefix))
               => /\ DefaultState(SwitchState(lx)).state = "IDENTIFIER"
                  /\ DefaultState(SwitchState(lx)).currentPos = lx.currentPos
    /\ (lexType = LEX_JULIA /\ PrefixMet(lx, <<"r">>))
           => DefaultState(SwitchState(lx)).state = "REGEX"
    /\ (lexType = LEX_JULIA /\ PrefixMet(lx, <<"b">>))
           => DefaultState(SwitchState(lx)).state = "DOUBLEQUOTESTRING"
    /\ (lexType = LEX_JULIA /\ PrefixMet(lx, <<"r", "a", "w">>))
           => DefaultState(SwitchState(lx)).state \in {"RAW_STRING2", "TRIPLE_STRING2"}

----------------------------------------------------------------------------
\* C20: the style tag of a position depends only on the bytes up to and including that
\* position: the buffer and the buffer without its last character agree on every
\* position of the shorter one, and scanned from position 0 with the same dialect, word
\* lists and initial state they give every such position the same style tag.
C20_TagDependsOnPrefix ==
    (phase = "edited" /\ full.end = Length + 1) =>
        \A p \in 0..(Length - 1) : lx.styles[p] = full.styles[p]

----------------------------------------------------------------------------
\* Folding of the block openers that only some dialects have

DialectOpeners ==
    {W_switch, W_classdef, W_parfor, W_do, W_unwind_protect, W_select, W_type, W_quote,
     W_let, W_macro, W_struct, W_begin, W_module}

MaxOpener == 1

\* every such word on a line of its own
OpenerFragments == {w \o <<"\n">> : w \in DialectOpeners}

OpenerLists == [NoLists EXCEPT !.keywords = DialectOpeners]

OpenerFamily ==
    Family(DocsOver(OpenerFragments, MaxOpener), Dialects, OpenerLists, {DefaultProps}, FALSE, {})

InitOpener == InitFrom({LoopFamily(FALSE), OpenerFamily})

SpecOpener == InitOpener /\ [][Next]_vars

\* the dialects the specification lists for a block opener
ListedDialects(w) ==
    CASE w \in {W_switch, W_classdef, W_parfor} -> {LEX_MATLAB, LEX_OCTAVE, LEX_SCILAB}
      [] w = W_do -> {LEX_OCTAVE, LEX_JULIA}
      [] w = W_unwind_protect -> {LEX_OCTAVE}
      [] w = W_select -> {LEX_SCILAB}
      [] OTHER -> {LEX_JULIA}

\* the dialects in which a block opener raises the level: "switch", "classdef" and
\* "parfor" do in MATLAB and Octave
OpeningDialects(w) ==
    IF w \in {W_switch, W_classdef, W_parfor} THEN {LEX_MATLAB, LEX_OCTAVE}
    ELSE ListedDialects(w)

\* the change of the running level the fold pass makes at the word it is about to look at
LevelChange == FoldIteration(fd).frame.levelNext - fd.levelNext

----------------------------------------------------------------------------
\* The test for blanks up to the end of the line, under LF, CR LF and no terminator

MaxEol == 3

EolFragments == {<<"%", "{">>, <<"%", "}">>, <<"x">>, <<" ">>, LF, CRLF}

EolFamily ==
    Family(DocsOver(EolFragments, MaxEol), {LEX_MATLAB, LEX_OCTAVE}, NoLists, {DefaultProps},
           FALSE, {})

InitEol == InitFrom({LoopFamily(FALSE), EolFamily})

SpecEol == InitEol /\ [][Next]_vars

\* the position of the terminator of line l (of its first character when it is CR LF),
\* and the end of the document for a last line without one
TerminatorOf(l) ==
    LET ends == {p \in LineStart(l)..(Length - 1) : CharAt(p) \in {"\r", "\n"}}
    IN  IF ends = {} THEN Length ELSE CHOOSE p \in ends : \A q \in ends : p <= q

\* every character from pos up to the terminator of its line is a space or a tab
BlankToEOL(pos) ==
    \A i \in pos..(TerminatorOf(GetLine(pos)) - 1) : IsSpaceOrTab(CharAt(i))

\* the loop body is about to look, in the default state and before any visible character
\* of the line, at "%" followed by the character brace
MarkerMet(s, brace) ==
    /\ s.pc = "loop"
    /\ SwitchState(s).pc = "loop"
    /\ SwitchState(s).state = "DEFAULT"
    /\ s.visibleChars = 0
    /\ MatchAt(s.currentPos, <<"%", brace>>)
    /\ s.currentPos + 1 < Length

\* C22: IsLexSpaceToEOL(pos) is true exactly when every character from pos up to, but
\* not including, the terminator of pos's line is a space or a tab, for lines ended by
\* LF, by CR LF and for a last line without terminator (stated over the documents of
\* the MATLAB and Octave scans); so in MATLAB and Octave a "%{"
\* met in the default state with nothing but blanks after it to the end of the line
\* starts a block comment under each line-ending convention, and "%{x" never does.
C22_SpaceToEOL ==
    /\ \A pos \in 0..Length :
           (IsMatlabOctave(lexType) /\ pos <= TerminatorOf(GetLine(pos)))
               => (IsLexSpaceToEOL(pos) <=> BlankToEOL(pos))
    /\ (IsMatlabOctave(lexType) /\ MarkerMet(lx, "{"))
           => (DefaultState(SwitchState(lx)).state = "COMMENTBLOCK"
                   <=> BlankToEOL(lx.currentPos + 2))
    /\ (IsMatlabOctave(lexType) /\ MarkerMet(lx, "{") /\ CharAt(lx.currentPos + 2) = "x")
           => DefaultState(SwitchState(lx)).state # "COMMENTBLOCK"

----------------------------------------------------------------------------
\* Text inside a MATLAB or Octave block comment

MaxBlock == 3

BlockFragments ==
    {<<"%", "{", "\n">>, <<"%", "}", "\n">>, <<"%", "}", "x", "\n">>, <<"#", "}", "\n">>,
     <<"*", "/">>, <<"x">>, <<" ">>}

BlockFamily ==
    Family(DocsOver(BlockFragments, MaxBlock), {LEX_MATLAB, LEX_OCTAVE}, NoLists, {DefaultProps},
           FALSE, {})

InitBlock == InitFrom({LoopFamily(FALSE), BlockFamily})

SpecBlock == InitBlock /\ [][Next]_vars

\* the loop body is about to look at a character in the block comment state
InBlockComment(s) == s.pc = "loop" /\ s.state = "COMMENTBLOCK"

\* at position p stands a closing marker of the dialect, as the first non-blank text of
\* its line and with nothing but blanks after it up to the end of the line
ClosingMarkerAt(p) ==
    /\ \/ MatchAt(p, <<"%", "}">>)
       \/ (lexType = LEX_OCTAVE /\ MatchAt(p, <<"#", "}">>))
    /\ p + 1 < Length
    /\ \A i \in LineStart(GetLine(p))..(p - 1) : IsSpaceOrTab(CharAt(i))
    /\ BlankToEOL(p + 2)

\* C23: in MATLAB and Octave, while the scan is inside a block comment, the depth goes
\* down and the comment ends only at a "%}" (in Octave also "#}") that is the first
\* non-blank text of its line and is followed by blanks only; at any other text, "*/"
\* included, the depth and the block comment state stay as they are.
C23_OnlyMarkersClose ==
    (IsMatlabOctave(lexType) /\ InBlockComment(lx) /\ ~ClosingMarkerAt(lx.currentPos))
        => /\ SwitchState(lx).commentLevel >= lx.commentLevel
           /\ SwitchState(lx).state = "COMMENTBLOCK"

----------------------------------------------------------------------------
\* the scan in progress is a MATLAB or Octave scan that started at position 0
ScanFromStart == IsMatlabOctave(lexType) /\ lx.startPos = 0

\* the last line state write was made at the character the scan has just left, or at
\* the end of the document
JustWritten ==
    /\ lx.lineWrites # <<>>
    /\ lx.lineWrites[Len(lx.lineWrites)].pos \in {lx.currentPos - 1, Length}
    /\ lx.pc \in {"loop", "complete"}

\* C24: in MATLAB and Octave, in a scan started from position 0, the line state written
\* at a line end is greater than zero if and only if the scan is in the block comment
\* state at that line end, and between two characters the scan is in the block comment
\* state if and only if commentLevel is greater than zero: never in the default state
\* with commentLevel > 0, never in the block comment state with commentLevel = 0.
C24_LineStateIffBlockComment ==
    /\ (ScanFromStart /\ JustWritten)
           => (lx.lineWrites[Len(lx.lineWrites)].value > 0 <=> lx.state = "COMMENTBLOCK")
    /\ (ScanFromStart /\ lx.pc \in {"loop", "complete", "done"})
           => (lx.commentLevel > 0 <=> lx.state = "COMMENTBLOCK")

\* a scan from position 0 has just written the line state 2 at the end of a second
\* opener line and goes on in the block comment state
C24_Witness ==
    /\ ScanFromStart
    /\ JustWritten
    /\ lx.lineWrites[Len(lx.lineWrites)].value = 2
    /\ lx.state = "COMMENTBLOCK"
    /\ lx.pc = "loop"

====
